---- MODULE Spec2Model ----
(***************************************************************************)
(* Model of the text-to-speech service of backend/apis/tts/__init__.py     *)
(* (generate_tts, get_audio_url and their helpers) together with the       *)
(* Redis client bootstrap of backend/storage/client.py.                   *)
(*                                                                         *)
(* Byte strings are sequences of integers 0..255.  Text (cache keys, MIME  *)
(* types, base64 payloads, data URLs) is TLA+ strings, concatenated as    *)
(* the code concatenates them.                                            *)
(***************************************************************************)
EXTENDS Integers, Sequences, FiniteSets, TLC

(***************************************************************************)
(* Bounds of the model.                                                    *)
(***************************************************************************)
\* Longest raw audio payload a provider delivers, in bytes.
MaxPcmLen == 2

\* Python's None, and the marker of a keyword argument left out of a call.
None == "None"

(***************************************************************************)
(* struct.pack('<I', v) and struct.pack('<H', v): little-endian unsigned   *)
(* integers of 4 and 2 bytes.  struct raises struct.error for a value      *)
(* outside the field's range; PackOk says whether it does not.             *)
(***************************************************************************)
\* v < 2^32, written so that no number beyond 32 bits is needed.
PackU32Ok(v) == v >= 0 /\ v \div 65536 < 65536

PackU16Ok(v) == v >= 0 /\ v < 65536

PackU32(v) ==
    << v % 256, (v \div 256) % 256, (v \div 65536) % 256, (v \div 16777216) % 256 >>

PackU16(v) == << v % 256, (v \div 256) % 256 >>

\* The reading of a little-endian field back from bytes (struct.unpack).
UnpackU32(b) == b[1] + 256 * b[2] + 65536 * b[3] + 16777216 * b[4]

UnpackU16(b) == b[1] + 256 * b[2]

\* ASCII codes of the four-character chunk tags.
TagRIFF == << 82, 73, 70, 70 >>

TagWAVE == << 87, 65, 86, 69 >>

TagFmt == << 102, 109, 116, 32 >>

TagData == << 100, 97, 116, 97 >>

(***************************************************************************)
(* _pcm_to_wav(pcm_data, sample_rate, channels, sample_width)              *)
(***************************************************************************)
\* Whether every struct.pack of _pcm_to_wav returns, in the order the fields are
\* packed; struct.error leaves the function at the first that does not.
PcmToWavOk(pcm_data, sample_rate, channels, sample_width) ==
    /\ PackU32Ok(36 + Len(pcm_data))
    /\ PackU16Ok(channels)
    /\ PackU32Ok(sample_rate)
    /\ PackU32Ok(sample_rate * channels * sample_width)
    /\ PackU16Ok(channels * sample_width)
    /\ PackU16Ok(sample_width * 8)
    /\ PackU32Ok(Len(pcm_data))

PcmToWavMutRiff(pcm_data, sample_rate, channels, sample_width) ==
    LET data_size == Len(pcm_data)
    IN  TagRIFF \o PackU32(44 + data_size) \o TagWAVE
        \o TagFmt \o PackU32(16) \o PackU16(1) \o PackU16(channels)
        \o PackU32(sample_rate)
        \o PackU32(sample_rate * channels * sample_width)
        \o PackU16(channels * sample_width)
        \o PackU16(sample_width * 8)
        \o TagData \o PackU32(data_size) \o pcm_data

PcmToWav(pcm_data, sample_rate, channels, sample_width) ==
    LET data_size == Len(pcm_data)
        fmt_chunk_size == 16
        riff_size == 36 + data_size
    IN  TagRIFF \o PackU32(riff_size) \o TagWAVE
        \o TagFmt \o PackU32(fmt_chunk_size) \o PackU16(1) \o PackU16(channels)
        \o PackU32(sample_rate)
        \o PackU32(sample_rate * channels * sample_width)
        \o PackU16(channels * sample_width)
        \o PackU16(sample_width * 8)
        \o TagData \o PackU32(data_size) \o pcm_data

(***************************************************************************)
(* The literal empty_wav of generate_tts: the 44 bytes returned when no    *)
(* provider produced audio.                                                *)
(***************************************************************************)
EmptyWavMutSize ==
    TagRIFF \o << 36, 0, 0, 0 >> \o TagWAVE
    \o TagFmt \o << 16, 0, 0, 0 >> \o << 1, 0 >> \o << 1, 0 >>
    \o << 68, 172, 0, 0 >> \o << 136, 88, 1, 0 >> \o << 2, 0 >> \o << 16, 0 >>
    \o TagData \o << 2, 0, 0, 0 >>

empty_wav ==
    TagRIFF \o << 36, 0, 0, 0 >> \o TagWAVE
    \o TagFmt \o << 16, 0, 0, 0 >> \o << 1, 0 >> \o << 1, 0 >>
    \o << 68, 172, 0, 0 >> \o << 136, 88, 1, 0 >> \o << 2, 0 >> \o << 16, 0 >>
    \o TagData \o << 0, 0, 0, 0 >>

\* The fields of a 44-byte container header, read back from the bytes.
WavRiffSize(w) == UnpackU32(SubSeq(w, 5, 8))

WavChannels(w) == UnpackU16(SubSeq(w, 23, 24))

WavSampleRate(w) == UnpackU32(SubSeq(w, 25, 28))

WavByteRate(w) == UnpackU32(SubSeq(w, 29, 32))

WavBlockAlign(w) == UnpackU16(SubSeq(w, 33, 34))

WavBitsPerSample(w) == UnpackU16(SubSeq(w, 35, 36))

WavDataSize(w) == UnpackU32(SubSeq(w, 41, 44))

(***************************************************************************)
(* base64.b64encode(b).decode("utf-8"): the standard alphabet, '=' padded. *)
(***************************************************************************)
B64Alphabet ==
    << "A", "B", "C", "D", "E", "F", "G", "H", "I", "J", "K", "L", "M",
       "N", "O", "P", "Q", "R", "S", "T", "U", "V", "W", "X", "Y", "Z",
       "a", "b", "c", "d", "e", "f", "g", "h", "i", "j", "k", "l", "m",
       "n", "o", "p", "q", "r", "s", "t", "u", "v", "w", "x", "y", "z",
       "0", "1", "2", "3", "4", "5", "6", "7", "8", "9", "+", "/" >>

B64Char(i) == B64Alphabet[i + 1]

RECURSIVE B64Encode(_)
B64Encode(b) ==
    IF Len(b) = 0 THEN ""
    ELSE IF Len(b) = 1 THEN
        B64Char(b[1] \div 4) \o B64Char((b[1] % 4) * 16) \o "=="
    ELSE IF Len(b) = 2 THEN
        B64Char(b[1] \div 4)
        \o B64Char((b[1] % 4) * 16 + b[2] \div 16)
        \o B64Char((b[2] % 16) * 4) \o "="
    ELSE
        B64Char(b[1] \div 4)
        \o B64Char((b[1] % 4) * 16 + b[2] \div 16)
        \o B64Char((b[2] % 16) * 4 + b[3] \div 64)
        \o B64Char(b[3] % 64)
        \o B64Encode(SubSeq(b, 4, Len(b)))

(***************************************************************************)
(* Module configuration (lines 62-76 of the TTS module).                   *)
(***************************************************************************)
DEFAULT_TTS_PROVIDER == "gcloud"

DEFAULT_AUDIO_MIME == "audio/wav"

DEFAULT_CACHE_TTL_SECONDS == 86400

DEFAULT_GCLOUD_VOICE_NAME == "Leda"

(***************************************************************************)
(* Text is a sequence of characters.  text.strip() removes leading and     *)
(* trailing whitespace; "not text or not text.strip()" is IsBlankText.     *)
(***************************************************************************)
Whitespace == { " ", "\t", "\n", "\r" }

RECURSIVE LStrip(_)
LStrip(t) ==
    IF Len(t) > 0 /\ t[1] \in Whitespace THEN LStrip(Tail(t)) ELSE t

RECURSIVE RStrip(_)
RStrip(t) ==
    IF Len(t) > 0 /\ t[Len(t)] \in Whitespace
    THEN RStrip(SubSeq(t, 1, Len(t) - 1)) ELSE t

Strip(t) == RStrip(LStrip(t))

\* The text argument given as None.
NoText == << None >>

\* No character of the text is other than whitespace.
IsBlankTextMutEmpty(text) == text = NoText \/ Len(text) = 0

IsBlankText(text) == text = NoText \/ Len(text) = 0 \/ Len(Strip(text)) = 0

(***************************************************************************)
(* voice_config: the keys this model follows are provider, style,          *)
(* voiceName and mimeType; a key's value None stands for the key being     *)
(* absent (voice_config.get(key) is None).                                 *)
(***************************************************************************)
NoConfig == [provider |-> None, style |-> None, voiceName |-> None, mimeType |-> None]

\* provider = voice_config.get("provider") or DEFAULT_TTS_PROVIDER
EffectiveProvider(vc) ==
    IF vc.provider # None THEN vc.provider ELSE DEFAULT_TTS_PROVIDER

\* voice_name = voice_config.get("voiceName") or DEFAULT_GCLOUD_VOICE_NAME
EffectiveVoiceName(vc) ==
    IF vc.voiceName # None THEN vc.voiceName ELSE DEFAULT_GCLOUD_VOICE_NAME

\* The condition of line 577 under which the Gemini API adapter is called.
UseGeminiApiMutNoStyle(vc) ==
    \/ EffectiveVoiceName(vc) = "Leda"
    \/ EffectiveProvider(vc) = "gemini"

UseGeminiApi(vc) ==
    \/ vc.style = "game_show_host"
    \/ EffectiveVoiceName(vc) = "Leda"
    \/ EffectiveProvider(vc) = "gemini"

\* The condition of line 591 under which the Google Cloud adapter is called.
UseGcloud(vc, e) == EffectiveProvider(vc) = "gcloud" /\ e.GCLOUD_TTS_AVAILABLE

\* mime_type = str(voice_config.get("mimeType") or DEFAULT_AUDIO_MIME)
MimeTypeMutDefault(vc) == DEFAULT_AUDIO_MIME

MimeType(vc) == IF vc.mimeType # None THEN vc.mimeType ELSE DEFAULT_AUDIO_MIME

\* f"data:{mime_type};base64,{b64}"
DataUrl(mime_type, b64) == "data:" \o mime_type \o ";base64," \o b64

(***************************************************************************)
(* String helpers of _convert_audio_to_wav.  A MIME descriptor is a        *)
(* sequence of characters.                                                 *)
(***************************************************************************)
\* s.split(sep): the pieces of s between occurrences of the character sep.
RECURSIVE SplitFrom(_, _, _)
SplitFrom(s, sep, cur) ==
    IF Len(s) = 0 THEN << cur >>
    ELSE IF s[1] = sep THEN << cur >> \o SplitFrom(Tail(s), sep, << >>)
    ELSE SplitFrom(Tail(s), sep, Append(cur, s[1]))

Split(s, sep) == SplitFrom(s, sep, << >>)

\* The index of the first occurrence of character c in s, 0 when there is none.
RECURSIVE IndexOf(_, _, _)
IndexOf(s, c, i) ==
    IF i > Len(s) THEN 0 ELSE IF s[i] = c THEN i ELSE IndexOf(s, c, i + 1)

\* s.split(c, 1)[1]: what follows the first c; IndexError when s holds no c.
HasAfterFirst(s, c) == IndexOf(s, c, 1) # 0

AfterFirst(s, c) == SubSeq(s, IndexOf(s, c, 1) + 1, Len(s))

StartsWith(s, prefix) ==
    Len(s) >= Len(prefix) /\ SubSeq(s, 1, Len(prefix)) = prefix

UpperLetters ==
    << "A", "B", "C", "D", "E", "F", "G", "H", "I", "J", "K", "L", "M",
       "N", "O", "P", "Q", "R", "S", "T", "U", "V", "W", "X", "Y", "Z" >>

LowerLetters ==
    << "a", "b", "c", "d", "e", "f", "g", "h", "i", "j", "k", "l", "m",
       "n", "o", "p", "q", "r", "s", "t", "u", "v", "w", "x", "y", "z" >>

LowerChar(c) ==
    IF \E i \in 1..26 : UpperLetters[i] = c
    THEN LowerLetters[CHOOSE i \in 1..26 : UpperLetters[i] = c]
    ELSE c

\* s.lower()
Lower(s) == [i \in 1..Len(s) |-> LowerChar(s[i])]

Digits == << "0", "1", "2", "3", "4", "5", "6", "7", "8", "9" >>

IsDigit(c) == \E i \in 1..10 : Digits[i] = c

DigitValue(c) == (CHOOSE i \in 1..10 : Digits[i] = c) - 1

\* int(s) of Python for a decimal literal: surrounding whitespace is dropped, one
\* sign is allowed, then digits, single underscores allowed between digits.
\* IntOk says whether int(s) returns rather than raising ValueError.
Unsigned(s) == IF Len(s) > 0 /\ s[1] \in { "+", "-" } THEN Tail(s) ELSE s

DigitsOk(d) ==
    /\ Len(d) > 0
    /\ IsDigit(d[1]) /\ IsDigit(d[Len(d)])
    /\ \A i \in 1..Len(d) :
          \/ IsDigit(d[i])
          \/ d[i] = "_" /\ i > 1 /\ i < Len(d) /\ IsDigit(d[i - 1]) /\ IsDigit(d[i + 1])

IntOk(s) == DigitsOk(Unsigned(Strip(s)))

RECURSIVE DigitsValue(_, _)
DigitsValue(d, acc) ==
    IF Len(d) = 0 THEN acc
    ELSE IF d[1] = "_" THEN DigitsValue(Tail(d), acc)
    ELSE DigitsValue(Tail(d), 10 * acc + DigitValue(d[1]))

IntValue(s) ==
    LET t == Strip(s)
        v == DigitsValue(Unsigned(t), 0)
    IN  IF Len(t) > 0 /\ t[1] = "-" THEN 0 - v ELSE v

(***************************************************************************)
(* _convert_audio_to_wav(audio_data, mime_type).  The loop over the        *)
(* descriptor's parameters folds a pair <<sample_rate, bits_per_sample>>;  *)
(* a parameter whose number does not parse leaves the running value as it  *)
(* is (the except clauses pass).                                           *)
(***************************************************************************)
RateTag == << "r", "a", "t", "e", "=" >>

AudioLTag == << "a", "u", "d", "i", "o", "/", "L" >>

ParseParam(param0, acc) ==
    LET param == Strip(param0)
    IN  IF StartsWith(Lower(param), RateTag)
        THEN IF IntOk(AfterFirst(param, "="))
             THEN << IntValue(AfterFirst(param, "=")), acc[2] >>
             ELSE acc
        ELSE IF StartsWith(param, AudioLTag)
        THEN IF HasAfterFirst(param, "L") /\ IntOk(AfterFirst(param, "L"))
             THEN << acc[1], IntValue(AfterFirst(param, "L")) >>
             ELSE acc
        ELSE acc

RECURSIVE ParseParams(_, _)
ParseParams(parts, acc) ==
    IF Len(parts) = 0 THEN acc
    ELSE ParseParams(Tail(parts), ParseParam(parts[1], acc))

\* <<sample_rate, bits_per_sample>> after the loop, from the defaults 24000, 16.
ParseMime(mime_type) == ParseParams(Split(mime_type, ";"), << 24000, 16 >>)

\* The result of _convert_audio_to_wav: ok is FALSE when struct.pack raises
\* struct.error because a header field is out of its range.
ConvertAudioToWav(audio_data, mime_type) ==
    LET parsed == ParseMime(mime_type)
        sample_rate == parsed[1]
        bits_per_sample == parsed[2]
        num_channels == 1
        bytes_per_sample == bits_per_sample \div 8
        block_align == num_channels * bytes_per_sample
        byte_rate == sample_rate * block_align
        data_size == Len(audio_data)
        chunk_size == 36 + data_size
        fits == /\ PackU32Ok(chunk_size) /\ PackU16Ok(num_channels)
                /\ PackU32Ok(sample_rate) /\ PackU32Ok(byte_rate)
                /\ PackU16Ok(block_align) /\ PackU16Ok(bits_per_sample)
                /\ PackU32Ok(data_size)
    IN  IF fits
        THEN [ok |-> TRUE,
              bytes |-> TagRIFF \o PackU32(chunk_size) \o TagWAVE
                        \o TagFmt \o PackU32(16) \o PackU16(1)
                        \o PackU16(num_channels) \o PackU32(sample_rate)
                        \o PackU32(byte_rate) \o PackU16(block_align)
                        \o PackU16(bits_per_sample)
                        \o TagData \o PackU32(data_size) \o audio_data]
        ELSE [ok |-> FALSE, bytes |-> << >>]

(***************************************************************************)
(* The inputs the model draws from.                                        *)
(***************************************************************************)
\* Calls started in one behaviour.
MaxCalls == 2

\* The most messages a Live turn carries.
MaxTurnLen == 3

\* The callers of get_audio_url that run concurrently; the first of them is
\* the one caller of the sequential specifications.
Callers == { "c1", "c2" }

MainCaller == "c1"

Hello == << "H", "i" >>

Texts == { Hello, << " ", "\t" >>, << >> }

\* generate_tts is also called with None for text.
TtsTexts == Texts \cup { NoText }

CacheKeys == { "k1", "k2" }

\* The cache_key argument given as None.
NoKey == None

\* ttl_seconds is an integer or None.
TtlNone == [none |-> TRUE, v |-> 0]

Ttl(n) == [none |-> FALSE, v |-> n]

\* The last one is the parameter's default, taken when the argument is left out.
TtlArgs == { Ttl(0), Ttl(0 - 1), TtlNone, Ttl(DEFAULT_CACHE_TTL_SECONDS) }

\* Every voice_config over the values the selection code distinguishes.
AllVoiceConfigs ==
    [provider : { None, "gcloud", "gemini", "other" },
     style : { None, "game_show_host" },
     voiceName : { None, "Leda", "Zephyr" },
     mimeType : { None }]

\* The voice_configs of get_audio_url's callers: the default one, under which
\* every adapter is selected, and one that asks for another MIME type and
\* selects only the Live and Gemini API adapters.
UrlVoiceConfigs ==
    { NoConfig,
      [NoConfig EXCEPT !.mimeType = "audio/mpeg", !.provider = "gemini"] }

\* Where the calling thread stands with asyncio when it enters generate_tts: its
\* event loop is running, it has a loop that is not running, or it has none
\* (asyncio.get_event_loop raises RuntimeError).
LoopStates == { "running", "not_running", "none" }

\* A call's arguments and calling context: the sets each is drawn from.
UrlInputs ==
    [texts |-> Texts, keys |-> CacheKeys \cup { "", NoKey },
     configs |-> UrlVoiceConfigs, ttls |-> TtlArgs, loops |-> { "not_running" }]

\* Calls that differ in what decides the path through get_audio_url (the key,
\* the text, whether the entry expires), with the default voice_config.
UrlPathInputs ==
    [texts |-> Texts, keys |-> CacheKeys \cup { "", NoKey },
     configs |-> { NoConfig },
     ttls |-> { TtlNone, Ttl(DEFAULT_CACHE_TTL_SECONDS) },
     loops |-> { "not_running" }]

\* The concurrent callers ask for one text under one key with the default
\* voice_config, with or without an expiry.
ConcInputs ==
    [texts |-> { Hello }, keys |-> { "k1" }, configs |-> { NoConfig },
     ttls |-> { Ttl(60), Ttl(0) }, loops |-> { "not_running" }]

\* Raw audio a provider delivers: n bytes of a fixed sample stream.
Pcm(n) == [i \in 1..n |-> (251 * i) % 256]

Payloads == { Pcm(n) : n \in 1..MaxPcmLen }

\* Audio a service delivers already in a WAV container: 24000 Hz, 16-bit, mono.
WavPayloads == { PcmToWav(b, 24000, 1, 2) : b \in Payloads }

\* The MIME descriptors the Gemini API reports for its inline audio; the empty
\* one stands for a chunk without mime_type.
MimeL16 ==
    << "a", "u", "d", "i", "o", "/", "L", "1", "6", ";",
       "r", "a", "t", "e", "=", "2", "4", "0", "0", "0" >>

MimeWav == << "a", "u", "d", "i", "o", "/", "w", "a", "v" >>

MimeL16BadRate ==
    << "a", "u", "d", "i", "o", "/", "L", "1", "6", ";",
       "r", "a", "t", "e", "=", "-", "1" >>

GeminiMimes == { MimeL16, MimeWav, << >>, MimeL16BadRate }

\* What the process was started with: whether each optional library imported,
\* and whether GEMINI_API_KEY is set.
Environments ==
    [GEMINI_TTS_AVAILABLE : BOOLEAN, GCLOUD_TTS_AVAILABLE : BOOLEAN,
     GEMINI_API_KEY : BOOLEAN]

FullEnvironment ==
    [GEMINI_TTS_AVAILABLE |-> TRUE, GCLOUD_TTS_AVAILABLE |-> TRUE,
     GEMINI_API_KEY |-> TRUE]

(***************************************************************************)
(* State.                                                                  *)
(***************************************************************************)
VARIABLES
    th,             \* each thread's call: position, arguments, locals, result
    store,          \* the Redis keyspace: key -> entry
    redis_up,       \* whether the Redis server answers
    redis_client,   \* storage.client._redis_client is not None
    live_client,    \* _gemini_live_client: 0 for None, else the client's number
    clients_built,  \* history: genai.Client objects constructed so far
    env,            \* the process environment, fixed at start
    ncalls,         \* calls started so far
    last_write,     \* history: per key, the call that wrote the current entry
    call,           \* a helper function called on its own: arguments and result
    redis_tested    \* history: a ping of _redis_client has succeeded

vars ==
    << th, store, redis_up, redis_client, live_client, clients_built, env, ncalls,
       last_write, call, redis_tested >>

\* A key that is not in the keyspace; ttl follows Redis's TTL command: -2 for
\* a missing key, -1 for a key without expiry, else the seconds set.
Absent == [present |-> FALSE, value |-> "", ttl |-> 0 - 2]

Entry(value, ttl) == [present |-> TRUE, value |-> value, ttl |-> ttl]

\* No call has written the key's current entry.
NoWrite == [mime_type |-> "", url |-> ""]

\* The key's history: the call that wrote the current entry (NoWrite when the
\* key holds none), and how many writes the key has taken so far.
KeyHistory(w, n) == [by |-> w, n |-> n]

NoResult == [kind |-> "none", url |-> "", audio |-> << >>, client |-> 0, exc |-> ""]

ReturnedUrl(u) ==
    [kind |-> "return", url |-> u, audio |-> << >>, client |-> 0, exc |-> ""]

ReturnedAudio(a) ==
    [kind |-> "return", url |-> "", audio |-> a, client |-> 0, exc |-> ""]

\* _get_gemini_live_client returned the client numbered c.
ReturnedClient(c) ==
    [kind |-> "return", url |-> "", audio |-> << >>, client |-> c, exc |-> ""]

Raised(e) == [kind |-> "raise", url |-> "", audio |-> << >>, client |-> 0, exc |-> e]

IdleThread ==
    [pc |-> "idle", entry |-> "", text |-> << >>, cache_key |-> "",
     voice_config |-> NoConfig, ttl_seconds |-> TtlNone, mime_type |-> "",
     loop |-> "none", cached |-> Absent, seen |-> 0, audio_bytes |-> << >>,
     client |-> 0,
     attempts |-> << >>, warnings |-> << >>, writes |-> << >>,
     result |-> NoResult]

\* No helper function is being called on its own.
NoCall == [pc |-> "none"]

\* The process as the module's import leaves it.
InitProcess ==
    /\ th = [p \in Callers |-> IdleThread]
    /\ store = [k \in CacheKeys |-> Absent]
    /\ last_write = [k \in CacheKeys |-> KeyHistory(NoWrite, 0)]
    /\ redis_up = TRUE
    /\ redis_client = FALSE
    /\ redis_tested = FALSE
    /\ live_client = 0
    /\ clients_built = 0
    /\ ncalls = 0

InitCommon == InitProcess /\ call = NoCall

Init == InitCommon /\ env = FullEnvironment

InitTts == InitCommon /\ env \in Environments

(***************************************************************************)
(* generate_tts: where control goes.                                       *)
(***************************************************************************)
\* The exception leaves the entry point the thread called.
RaiseTo(t, exc) == [t EXCEPT !.pc = "done", !.result = Raised(exc)]

\* generate_tts returns audio: to get_audio_url (line 643), or to the caller.
FinishTts(t, audio) ==
    IF t.entry = "get_audio_url"
    THEN [t EXCEPT !.pc = "cache_set", !.audio_bytes = audio]
    ELSE [t EXCEPT !.pc = "done", !.result = ReturnedAudio(audio)]

\* Lines 590-614: fallback 2 if selected, else the empty WAV.
AfterGeminiMutSkip(t, e) == FinishTts(t, empty_wav)

AfterGemini(t, e) ==
    IF UseGcloud(t.voice_config, e)
    THEN [t EXCEPT !.pc = "gcloud"]
    ELSE FinishTts(t, empty_wav)

\* Lines 571-588: fallback 1 if selected.
AfterLive(t, e) ==
    IF e.GEMINI_TTS_AVAILABLE /\ UseGeminiApi(t.voice_config)
    THEN [t EXCEPT !.pc = "gemini"]
    ELSE AfterGemini(t, e)

\* An adapter's call ended: the attempt as the model records it.
Attempt(provider, ok, audio) == [provider |-> provider, ok |-> ok, audio |-> audio]

\* The adapter raised and generate_tts logged the warning of its except clause.
Failed(t, provider) ==
    [t EXCEPT !.attempts = Append(@, Attempt(provider, FALSE, << >>)),
              !.warnings = Append(@, provider)]

\* The adapter raised and the exception was caught without a warning.
Swallowed(t, provider) ==
    [t EXCEPT !.attempts = Append(@, Attempt(provider, FALSE, << >>))]

\* Lines 553-569, the Live adapter having raised exc.  A RuntimeError raised
\* under loop.run_until_complete is caught by the inner "except RuntimeError"
\* (line 565), which runs the adapter again with asyncio.run.  Under a running
\* loop the same clause catches it too, but asyncio.run then raises at once,
\* without running the adapter.  Everything else reaches the outer except.
LiveFailedMutRaise(t, exc, e) == RaiseTo(t, exc)

LiveFailed(t, exc, e) ==
    IF exc = "RuntimeError" /\ t.loop = "not_running"
    THEN [Swallowed(t, "live") EXCEPT !.pc = "live_retry"]
    ELSE AfterLive(Failed(t, "live"), e)

Succeeded(t, provider, audio) ==
    [t EXCEPT !.attempts = Append(@, Attempt(provider, TRUE, audio))]

(***************************************************************************)
(* The provider adapters.  What the remote service does is the input: a    *)
(* transport error, or the audio it delivers.  Each operator gives the     *)
(* adapter's result, ok = FALSE when the adapter raises.                   *)
(***************************************************************************)
AdapterRaised(exc) == [ok |-> FALSE, bytes |-> << >>, exc |-> exc]

AdapterReturned(b) == [ok |-> TRUE, bytes |-> b, exc |-> ""]

\* The Live session: it raises (a RuntimeError, or an exception of another
\* class), or the turn ends and data is the concatenation of its data messages
\* (empty when it carried no audio).
LiveResponses ==
    [error : { "RuntimeError", "Exception" }, data : { << >> }]
    \cup [error : { "" }, data : { << >> } \cup Payloads]

\* _generate_tts_async, lines 287-321, once the client is at hand.
GenerateTtsAsync(resp) ==
    IF resp.error # "" THEN AdapterRaised(resp.error)
    ELSE IF Len(resp.data) = 0 THEN AdapterRaised("RuntimeError")
    ELSE AdapterReturned(PcmToWav(resp.data, 24000, 1, 2))

\* The generate_content_stream response: error, or the joined inline data and
\* the first chunk's mime_type.  Data labelled audio/wav is a WAV container;
\* under any other label, or none, it is raw samples.
GeminiResponses ==
    [error : { TRUE }, data : { << >> }, mime : { << >> }]
    \cup [error : { FALSE }, data : { << >> }, mime : { << >> }]
    \cup [error : { FALSE }, data : Payloads, mime : GeminiMimes \ { MimeWav }]
    \cup [error : { FALSE }, data : WavPayloads, mime : { MimeWav }]

\* _generate_tts_gcloud_v1beta1, lines 434-468: every exception, the encoder's
\* included, leaves as a RuntimeError.
GenerateTtsGcloudV1beta1(resp) ==
    IF resp.error \/ Len(resp.data) = 0
    THEN AdapterRaised("RuntimeError")
    ELSE IF Len(resp.mime) > 0 /\ resp.mime # MimeWav
    THEN LET conv == ConvertAudioToWav(resp.data, resp.mime)
         IN  IF conv.ok THEN AdapterReturned(conv.bytes)
             ELSE AdapterRaised("RuntimeError")
    ELSE AdapterReturned(resp.data)

\* The responses on which lines 459-461 raise: audio under a descriptor that
\* _convert_audio_to_wav cannot turn into a header (struct.error).
EncodeErrorResponses ==
    { resp \in GeminiResponses :
        /\ ~resp.error /\ Len(resp.data) > 0
        /\ Len(resp.mime) > 0 /\ resp.mime # MimeWav
        /\ ~ConvertAudioToWav(resp.data, resp.mime).ok }

\* The synthesize_speech response: error, or response.audio_content; for the
\* LINEAR16 encoding requested at line 364 the service delivers the samples
\* behind a WAV header.
GcloudResponses == [error : BOOLEAN, audio_content : WavPayloads]

\* _generate_tts_gcloud, lines 372-380.
GenerateTtsGcloud(resp) ==
    IF resp.error THEN AdapterRaised("Exception")
    ELSE AdapterReturned(resp.audio_content)

(***************************************************************************)
(* Actions of generate_tts.                                                *)
(***************************************************************************)
\* A caller enters generate_tts(text, voice_config) directly.
CallGenerateTts(p) ==
    /\ th[p].pc = "idle"
    /\ ncalls < MaxCalls
    /\ \E text \in TtsTexts, vc \in AllVoiceConfigs, loop \in LoopStates :
          th' = [th EXCEPT ![p] =
                    [IdleThread EXCEPT !.pc = "validate", !.entry = "generate_tts",
                                       !.text = text, !.voice_config = vc,
                                       !.loop = loop]]
    /\ ncalls' = ncalls + 1
    /\ UNCHANGED << store, redis_up, redis_client, live_client, clients_built, env, last_write, call, redis_tested >>

\* Lines 542-549: the text check, then the first provider selected.
\* (The variant below writes the placeholder under the key before raising.)
ValidateTextMutStoresEmpty(p) ==
    /\ th[p].pc = "validate"
    /\ th' = [th EXCEPT ![p] =
                IF IsBlankText(th[p].text) THEN RaiseTo(th[p], "ValueError")
                ELSE IF env.GEMINI_TTS_AVAILABLE THEN [th[p] EXCEPT !.pc = "live"]
                ELSE AfterLive(th[p], env)]
    /\ store' = IF IsBlankText(th[p].text) /\ th[p].entry = "get_audio_url"
                THEN [store EXCEPT ![th[p].cache_key] = Entry(B64Encode(empty_wav), 0 - 1)]
                ELSE store
    /\ UNCHANGED << redis_up, redis_client, live_client, clients_built, env, ncalls, last_write, call, redis_tested >>

ValidateText(p) ==
    /\ th[p].pc = "validate"
    /\ th' = [th EXCEPT ![p] =
                IF IsBlankText(th[p].text) THEN RaiseTo(th[p], "ValueError")
                ELSE IF env.GEMINI_TTS_AVAILABLE THEN [th[p] EXCEPT !.pc = "live"]
                ELSE AfterLive(th[p], env)]
    /\ UNCHANGED << store, redis_up, redis_client, live_client, clients_built, env, ncalls, last_write, call, redis_tested >>

\* Lines 553-569 with _generate_tts_async and _get_gemini_live_client: the
\* cached client is reused or created (ValueError without GEMINI_API_KEY),
\* then the session runs.
LiveAdapter(p) ==
    /\ th[p].pc = "live"
    /\ IF live_client # 0 \/ env.GEMINI_API_KEY
       THEN /\ live_client' = IF live_client # 0 THEN live_client ELSE clients_built + 1
            /\ clients_built' = IF live_client # 0 THEN clients_built ELSE clients_built + 1
            /\ \E resp \in LiveResponses :
                  LET r == GenerateTtsAsync(resp)
                  IN  th' = [th EXCEPT ![p] =
                              IF r.ok
                              THEN FinishTts(Succeeded(th[p], "live", r.bytes), r.bytes)
                              ELSE LiveFailed(th[p], r.exc, env)]
       ELSE /\ live_client' = live_client
            /\ clients_built' = clients_built
            /\ th' = [th EXCEPT ![p] = LiveFailed(th[p], "ValueError", env)]
    /\ UNCHANGED << store, redis_up, redis_client, env, ncalls, last_write, call, redis_tested >>

\* Line 567 reached from the inner except clause: the Live adapter runs a
\* second time, now under asyncio.run; its exception reaches the outer except.
LiveRetry(p) ==
    /\ th[p].pc = "live_retry"
    /\ \E resp \in LiveResponses :
          LET r == GenerateTtsAsync(resp)
          IN  th' = [th EXCEPT ![p] =
                      IF r.ok
                      THEN FinishTts(Succeeded(th[p], "live", r.bytes), r.bytes)
                      ELSE AfterLive(Failed(th[p], "live"), env)]
    /\ UNCHANGED << store, redis_up, redis_client, live_client, clients_built, env, ncalls, last_write, call, redis_tested >>

\* Lines 290-298 of _generate_tts_async, the Live service never ending its
\* turn: "async for response in turn" waits for the next message, and neither
\* the adapter nor generate_tts (future.result(), run_until_complete,
\* asyncio.run, lines 558-567) sets a timeout.  The call stays where it is.
LiveHangs(p) ==
    /\ th[p].pc \in { "live", "live_retry" }
    /\ live_client # 0 \/ env.GEMINI_API_KEY
    /\ live_client' = IF live_client # 0 THEN live_client ELSE clients_built + 1
    /\ clients_built' = IF live_client # 0 THEN clients_built ELSE clients_built + 1
    /\ th' = [th EXCEPT ![p] = [th[p] EXCEPT !.pc = "blocked"]]
    /\ UNCHANGED << store, redis_up, redis_client, env, ncalls, last_write, call, redis_tested >>

\* Lines 572-588 with _generate_tts_gcloud_v1beta1: _get_gemini_api_key raises
\* ValueError without the key; any exception is logged and control falls
\* through.  responses is what the service may answer.
GeminiAdapterOn(p, responses) ==
    /\ th[p].pc = "gemini"
    /\ IF env.GEMINI_API_KEY
       THEN \E resp \in responses :
               LET r == GenerateTtsGcloudV1beta1(resp)
               IN  th' = [th EXCEPT ![p] =
                           IF r.ok
                           THEN FinishTts(Succeeded(th[p], "gemini", r.bytes), r.bytes)
                           ELSE AfterGemini(Failed(th[p], "gemini"), env)]
       ELSE th' = [th EXCEPT ![p] = AfterGemini(Failed(th[p], "gemini"), env)]
    /\ UNCHANGED << store, redis_up, redis_client, live_client, clients_built, env, ncalls, last_write, call, redis_tested >>

GeminiAdapter(p) == GeminiAdapterOn(p, GeminiResponses)

\* Lines 591-614 with _generate_tts_gcloud: success returns the audio, any
\* exception is logged and the empty WAV is returned.
GcloudAdapter(p) ==
    /\ th[p].pc = "gcloud"
    /\ \E resp \in GcloudResponses :
          LET r == GenerateTtsGcloud(resp)
          IN  th' = [th EXCEPT ![p] =
                      IF r.ok
                      THEN FinishTts(Succeeded(th[p], "gcloud", r.bytes), r.bytes)
                      ELSE FinishTts(Failed(th[p], "gcloud"), empty_wav)]
    /\ UNCHANGED << store, redis_up, redis_client, live_client, clients_built, env, ncalls, last_write, call, redis_tested >>

(***************************************************************************)
(* _get_gemini_live_client, statement by statement, for threads that call  *)
(* it concurrently (generate_tts runs the Live adapter on the calling      *)
(* thread or on a worker thread, lines 558-567).  The function takes no    *)
(* lock; a thread may be preempted between any two of its statements.      *)
(***************************************************************************)
\* A thread enters _get_gemini_live_client().
CallGetGeminiLiveClient(p) ==
    /\ th[p].pc = "idle"
    /\ ncalls < MaxCalls
    /\ th' = [th EXCEPT ![p] =
                [IdleThread EXCEPT !.pc = "lc_check",
                                   !.entry = "_get_gemini_live_client"]]
    /\ ncalls' = ncalls + 1
    /\ UNCHANGED << store, redis_up, redis_client, live_client, clients_built, env,
                    last_write, call, redis_tested >>

\* Lines 93-94: if _gemini_live_client is not None: return _gemini_live_client
LiveClientCheck(p) ==
    /\ th[p].pc = "lc_check"
    /\ th' = [th EXCEPT ![p] =
                IF live_client # 0
                THEN [th[p] EXCEPT !.pc = "done", !.result = ReturnedClient(live_client)]
                ELSE [th[p] EXCEPT !.pc = "lc_build"]]
    /\ UNCHANGED << store, redis_up, redis_client, live_client, clients_built, env,
                    ncalls, last_write, call, redis_tested >>

\* Lines 97-100, the right-hand side: _get_gemini_api_key() raises ValueError
\* without the key, else genai.Client(...) constructs a client.
LiveClientBuild(p) ==
    /\ th[p].pc = "lc_build"
    /\ IF env.GEMINI_API_KEY
       THEN /\ clients_built' = clients_built + 1
            /\ th' = [th EXCEPT ![p] =
                        [th[p] EXCEPT !.pc = "lc_store", !.client = clients_built + 1]]
       ELSE /\ clients_built' = clients_built
            /\ th' = [th EXCEPT ![p] = RaiseTo(th[p], "ValueError")]
    /\ UNCHANGED << store, redis_up, redis_client, live_client, env, ncalls,
                    last_write, call, redis_tested >>

\* Line 97, the assignment to the global.
LiveClientStore(p) ==
    /\ th[p].pc = "lc_store"
    /\ live_client' = th[p].client
    /\ th' = [th EXCEPT ![p] = [th[p] EXCEPT !.pc = "lc_return"]]
    /\ UNCHANGED << store, redis_up, redis_client, clients_built, env, ncalls,
                    last_write, call, redis_tested >>

\* Line 102: return _gemini_live_client, the global as it is now.
LiveClientReturn(p) ==
    /\ th[p].pc = "lc_return"
    /\ th' = [th EXCEPT ![p] =
                [th[p] EXCEPT !.pc = "done", !.result = ReturnedClient(live_client)]]
    /\ UNCHANGED << store, redis_up, redis_client, live_client, clients_built, env,
                    ncalls, last_write, call, redis_tested >>

(***************************************************************************)
(* Actions of get_audio_url.                                               *)
(***************************************************************************)
\* if not cache_key:
IsNoKeyMutNone(key) == key = NoKey

IsNoKey(key) == key = NoKey \/ key = ""

\* Lines 629-635: the cache_key check and the MIME type.
CallGetAudioUrl(p, inputs) ==
    /\ th[p].pc = "idle"
    /\ ncalls < MaxCalls
    /\ \E text \in inputs.texts, key \in inputs.keys,
          vc \in inputs.configs, ttl \in inputs.ttls, loop \in inputs.loops :
          LET t == [IdleThread EXCEPT !.entry = "get_audio_url", !.text = text,
                                      !.cache_key = key, !.voice_config = vc,
                                      !.ttl_seconds = ttl, !.loop = loop]
          IN  th' = [th EXCEPT ![p] =
                      IF IsNoKey(key) THEN RaiseTo(t, "ValueError")
                      ELSE [t EXCEPT !.pc = "get_client", !.mime_type = MimeType(vc)]]
    /\ ncalls' = ncalls + 1
    /\ UNCHANGED << store, redis_up, redis_client, live_client, clients_built, env, last_write, call, redis_tested >>

\* get_redis_client (storage/client.py lines 19-57): the cached client is
\* returned as it is; else one is created and stored in _redis_client, then
\* pinged, and a failed ping raises ValueError.
GetRedisClient(p) ==
    /\ th[p].pc = "get_client"
    /\ redis_client' = TRUE
    /\ redis_tested' = (redis_tested \/ (~redis_client /\ redis_up))
    /\ th' = [th EXCEPT ![p] =
                IF redis_client \/ redis_up
                THEN [th[p] EXCEPT !.pc = "cache_get"]
                ELSE RaiseTo(th[p], "ValueError")]
    /\ UNCHANGED << store, redis_up, live_client, clients_built, env, ncalls, last_write, call >>

\* if cached_b64:
IsHitMutNoExpiry(cached) == cached.present /\ cached.value # "" /\ cached.ttl > 0

IsHitMutNever(cached) == FALSE

IsHit(cached) == cached.present /\ cached.value # ""

\* Lines 638-641: r.get(cache_key); a hit returns the data URL.  seen is
\* history: how many writes the key had taken when it was read.
CacheGetMutRefresh(p) ==
    /\ th[p].pc = "cache_get"
    /\ redis_up
    /\ LET k == th[p].cache_key
           cached == store[k]
           t == [th[p] EXCEPT !.cached = cached, !.seen = last_write[k].n]
       IN  IF IsHit(cached)
           THEN /\ th' = [th EXCEPT ![p] =
                            [t EXCEPT !.pc = "done",
                                !.result = ReturnedUrl(DataUrl(t.mime_type, cached.value))]]
                /\ store' = [store EXCEPT ![k] =
                                Entry(cached.value, DEFAULT_CACHE_TTL_SECONDS)]
           ELSE /\ th' = [th EXCEPT ![p] = [t EXCEPT !.pc = "validate"]]
                /\ store' = store
    /\ UNCHANGED << redis_up, redis_client, live_client, clients_built, env, ncalls, last_write, call, redis_tested >>

\* A hit answered with the data URL of the call that wrote the entry.
CacheGetMutWriterUrl(p) ==
    /\ th[p].pc = "cache_get"
    /\ th' = [th EXCEPT ![p] =
                IF ~redis_up THEN RaiseTo(th[p], "ConnectionError")
                ELSE LET cached == store[th[p].cache_key]
                         t == [th[p] EXCEPT !.cached = cached,
                                            !.seen = last_write[th[p].cache_key].n]
                     IN  IF IsHit(cached)
                         THEN [t EXCEPT !.pc = "done",
                                  !.result = ReturnedUrl(last_write[th[p].cache_key].by.url)]
                         ELSE [t EXCEPT !.pc = "validate"]]
    /\ UNCHANGED << store, redis_up, redis_client, live_client, clients_built, env, ncalls, last_write, call, redis_tested >>

\* r.get raising taken for a miss.
CacheGetMutMissOnError(p) ==
    /\ th[p].pc = "cache_get"
    /\ th' = [th EXCEPT ![p] =
                LET cached == IF redis_up THEN store[th[p].cache_key] ELSE Absent
                    t == [th[p] EXCEPT !.cached = cached,
                                       !.seen = last_write[th[p].cache_key].n]
                IN  IF IsHit(cached)
                    THEN [t EXCEPT !.pc = "done",
                             !.result = ReturnedUrl(DataUrl(t.mime_type, cached.value))]
                    ELSE [t EXCEPT !.pc = "validate"]]
    /\ UNCHANGED << store, redis_up, redis_client, live_client, clients_built, env, ncalls, last_write, call, redis_tested >>

CacheGet(p) ==
    /\ th[p].pc = "cache_get"
    /\ th' = [th EXCEPT ![p] =
                IF ~redis_up THEN RaiseTo(th[p], "ConnectionError")
                ELSE LET cached == store[th[p].cache_key]
                         t == [th[p] EXCEPT !.cached = cached,
                                            !.seen = last_write[th[p].cache_key].n]
                     IN  IF IsHit(cached)
                         THEN [t EXCEPT !.pc = "done",
                                  !.result = ReturnedUrl(DataUrl(t.mime_type, cached.value))]
                         ELSE [t EXCEPT !.pc = "validate"]]
    /\ UNCHANGED << store, redis_up, redis_client, live_client, clients_built, env, ncalls, last_write, call, redis_tested >>

\* Lines 646-649: setex with the expiry when ttl_seconds is a positive number,
\* else set without expiry.
ExpiryOfMutZero(ttl) == IF ~ttl.none /\ ttl.v >= 0 THEN ttl.v ELSE 0 - 1

ExpiryOf(ttl) == IF ~ttl.none /\ ttl.v # 0 /\ ttl.v > 0 THEN ttl.v ELSE 0 - 1

\* r.setex(key, ttl, value) and r.set(key, value): the key's entry is replaced.
StoreWriteMutNx(st, key, e) == IF st[key].present THEN st ELSE [st EXCEPT ![key] = e]

StoreWrite(st, key, e) == [st EXCEPT ![key] = e]

\* Lines 644-651: encode, store, return the data URL.  writes is history: the
\* entries this call wrote, each with its number among the key's writes.
CacheSet(p) ==
    /\ th[p].pc = "cache_set"
    /\ LET b64 == B64Encode(th[p].audio_bytes)
           e == Entry(b64, ExpiryOf(th[p].ttl_seconds))
           k == th[p].cache_key
           n == last_write[k].n + 1
       IN  IF redis_up
           THEN /\ store' = StoreWrite(store, k, e)
                /\ last_write' = [last_write EXCEPT ![k] =
                                    KeyHistory([mime_type |-> th[p].mime_type,
                                                url |-> DataUrl(th[p].mime_type, b64)], n)]
                /\ th' = [th EXCEPT ![p] =
                            [th[p] EXCEPT !.pc = "done",
                                !.writes = Append(@, [entry |-> e, n |-> n]),
                                !.result = ReturnedUrl(DataUrl(th[p].mime_type, b64))]]
           ELSE /\ store' = store
                /\ last_write' = last_write
                /\ th' = [th EXCEPT ![p] = RaiseTo(th[p], "ConnectionError")]
    /\ UNCHANGED << redis_up, redis_client, live_client, clients_built, env, ncalls, call, redis_tested >>

\* The call's result has been taken; the thread is free for another call.
Return(p) ==
    /\ th[p].pc = "done"
    /\ th' = [th EXCEPT ![p] = IdleThread]
    /\ UNCHANGED << store, redis_up, redis_client, live_client, clients_built, env, ncalls, last_write, call, redis_tested >>

(***************************************************************************)
(* The environment of the service.                                         *)
(***************************************************************************)
\* Redis drops a key whose expiry has passed.
Expire(k) ==
    /\ store[k].present /\ store[k].ttl > 0
    /\ store' = [store EXCEPT ![k] = Absent]
    /\ last_write' = [last_write EXCEPT ![k] = KeyHistory(NoWrite, @.n)]
    /\ UNCHANGED << th, redis_up, redis_client, live_client, clients_built, env, ncalls, call, redis_tested >>

\* The Redis server stops answering, or answers again.
RedisDown ==
    /\ redis_up
    /\ redis_up' = FALSE
    /\ UNCHANGED << th, store, redis_client, live_client, clients_built, env, ncalls, last_write, call, redis_tested >>

RedisUp ==
    /\ ~redis_up
    /\ redis_up' = TRUE
    /\ UNCHANGED << th, store, redis_client, live_client, clients_built, env, ncalls, last_write, call, redis_tested >>

(***************************************************************************)
(* The helper functions called on their own.  call holds the arguments;    *)
(* the action applies the function and records what it returns, or that    *)
(* it raised.                                                              *)
(***************************************************************************)
FnReturned(b) == [ok |-> TRUE, bytes |-> b, exc |-> ""]

FnRaised(exc) == [ok |-> FALSE, bytes |-> << >>, exc |-> exc]

\* The arguments _pcm_to_wav is called with: payloads of every length up to
\* MaxPcmLen, and numbers inside and outside the range of each header field.
PcmToWavCalls ==
    [pc : { "args" }, fn : { "_pcm_to_wav" },
     pcm_data : { << >> } \cup Payloads,
     sample_rate : { 0 - 1, 0, 8000, 24000, 44100 },
     channels : { 0 - 1, 0, 1, 2, 65536 },
     sample_width : { 1, 2, 4, 8192 },
     out : { FnRaised("") }]

ApplyPcmToWav ==
    /\ call.pc = "args" /\ call.fn = "_pcm_to_wav"
    /\ call' = [call EXCEPT
                  !.pc = "returned",
                  !.out = IF PcmToWavOk(call.pcm_data, call.sample_rate,
                                        call.channels, call.sample_width)
                          THEN FnReturned(PcmToWav(call.pcm_data, call.sample_rate,
                                                   call.channels, call.sample_width))
                          ELSE FnRaised("struct.error")]
    /\ UNCHANGED << th, store, redis_up, redis_client, live_client, clients_built,
                    env, ncalls, last_write, redis_tested >>

\* The descriptors _convert_audio_to_wav is called with, in two parts: the media
\* type, which may carry the bit depth (audio/L<bits>), and the rate parameter.
\* The bit depth of the first three is a positive integer; audio/pcm has none.
GoodMediaTypes ==
    { << "a", "u", "d", "i", "o", "/", "L", "1", "6" >>,
      << "a", "u", "d", "i", "o", "/", "L", "8" >>,
      << "a", "u", "d", "i", "o", "/", "L", "2", "4" >>,
      << "a", "u", "d", "i", "o", "/", "p", "c", "m" >> }

\* A bit depth that is zero, not a number, negative.
BadMediaTypes ==
    { << "a", "u", "d", "i", "o", "/", "L", "0" >>,
      << "a", "u", "d", "i", "o", "/", "L", "x" >>,
      << "a", "u", "d", "i", "o", "/", "L", "-", "8" >> }

\* No rate parameter, or one whose value is a positive integer.
GoodRateParams ==
    { << >>,
      << ";", "r", "a", "t", "e", "=", "2", "4", "0", "0", "0" >>,
      << ";", "r", "a", "t", "e", "=", "4", "4", "1", "0", "0" >>,
      << ";", " ", "R", "a", "t", "e", "=", "8", "0", "0", "0" >> }

\* A rate that is zero, negative, not a number, empty.
BadRateParams ==
    { << ";", "r", "a", "t", "e", "=", "0" >>,
      << ";", "r", "a", "t", "e", "=", "-", "1" >>,
      << ";", "r", "a", "t", "e", "=", "a", "b", "c" >>,
      << ";", "r", "a", "t", "e", "=" >> }

ConvertAudioToWavCalls ==
    [pc : { "args" }, fn : { "_convert_audio_to_wav" },
     audio_data : { << >> } \cup Payloads,
     media_type : GoodMediaTypes \cup BadMediaTypes,
     rate_param : GoodRateParams \cup BadRateParams,
     out : { FnRaised("") }]

\* mime_type is the media type followed by the rate parameter.
ApplyConvertAudioToWav ==
    /\ call.pc = "args" /\ call.fn = "_convert_audio_to_wav"
    /\ LET r == ConvertAudioToWav(call.audio_data, call.media_type \o call.rate_param)
       IN  call' = [call EXCEPT
                      !.pc = "returned",
                      !.out = IF r.ok THEN FnReturned(r.bytes)
                              ELSE FnRaised("struct.error")]
    /\ UNCHANGED << th, store, redis_up, redis_client, live_client, clients_built,
                    env, ncalls, last_write, redis_tested >>

(***************************************************************************)
(* _stable_cache_key(prefix, text, voice_config).  Here a voice_config is  *)
(* the sequence of its (key, value) items in insertion order, which is the *)
(* order dict.items() yields them in; prefix, text, keys and values are    *)
(* strings.                                                                *)
(***************************************************************************)
\* The keys the model uses, in the order Python's str comparison puts them.
KeyOrder == << "provider", "style", "voiceName" >>

KeyRank(k) == CHOOSE i \in 1..Len(KeyOrder) : KeyOrder[i] = k

\* The place of item in a sorted list: tuples compare by their first component,
\* which no two items of a dict share.
RECURSIVE InsertItem(_, _)
InsertItem(item, sorted) ==
    IF Len(sorted) = 0 THEN << item >>
    ELSE IF KeyRank(item[1]) < KeyRank(sorted[1][1]) THEN << item >> \o sorted
    ELSE << sorted[1] >> \o InsertItem(item, Tail(sorted))

\* sorted(voice_config.items())
RECURSIVE SortedItems(_)
SortedItems(items) ==
    IF Len(items) = 0 THEN << >>
    ELSE InsertItem(items[1], SortedItems(Tail(items)))

\* repr of a (key, value) tuple of two strings.
ReprItem(item) == "('" \o item[1] \o "', '" \o item[2] \o "')"

RECURSIVE JoinItems(_)
JoinItems(items) ==
    IF Len(items) = 0 THEN ""
    ELSE IF Len(items) = 1 THEN ReprItem(items[1])
    ELSE ReprItem(items[1]) \o ", " \o JoinItems(Tail(items))

\* str(list of tuples)
StrItems(items) == "[" \o JoinItems(items) \o "]"

\* hashlib.sha256 over the bytes of msg, hexdigest(): a function of msg taken
\* to be free of collisions; the digest is written as the message it is of.
Sha256Hex(msg) == "sha256<" \o msg \o ">"

StableCacheKeyMutUnsorted(prefix, text, voice_config) ==
    prefix \o ":" \o Sha256Hex(text \o "|" \o StrItems(voice_config))

StableCacheKey(prefix, text, voice_config) ==
    prefix \o ":" \o Sha256Hex(text \o "|" \o StrItems(SortedItems(voice_config)))

\* Every voice_config over three keys and two values a key, in every insertion
\* order.
KeyItems ==
    { << "provider", "gcloud" >>, << "provider", "gemini" >>,
      << "style", "calm" >>, << "style", "game_show_host" >>,
      << "voiceName", "Leda" >>, << "voiceName", "Zephyr" >> }

KeyConfigs ==
    { vc \in UNION { [1..n -> KeyItems] : n \in 0..Len(KeyOrder) } :
        \A i, j \in 1..Len(vc) : i # j => vc[i][1] # vc[j][1] }

StableCacheKeyCalls ==
    [pc : { "args" }, fn : { "_stable_cache_key" },
     prefix : { "tts" }, text : { "Hi", "" },
     voice_config : KeyConfigs, out : { "" }]

ApplyStableCacheKey ==
    /\ call.pc = "args" /\ call.fn = "_stable_cache_key"
    /\ call' = [call EXCEPT
                  !.pc = "returned",
                  !.out = StableCacheKey(call.prefix, call.text, call.voice_config)]
    /\ UNCHANGED << th, store, redis_up, redis_client, live_client, clients_built,
                    env, ncalls, last_write, redis_tested >>

(***************************************************************************)
(* Specifications.                                                         *)
(*   Spec      one caller of get_audio_url after another, every argument,  *)
(*             over a Redis that may stop answering;                       *)
(*   SpecConc  two concurrent callers of get_audio_url for one key;        *)
(*   SpecTts   one caller of generate_tts, every voice_config and every    *)
(*             process environment;                                        *)
(*   SpecLive  concurrent callers of _get_gemini_live_client;              *)
(*   SpecTtsFair  SpecTts with a Live service that may never answer, the   *)
(*             caller's thread being scheduled as long as it can run;      *)
(*   SpecPcmToWav  _pcm_to_wav applied to each of PcmToWavCalls;           *)
(*   SpecConvertAudioToWav  _convert_audio_to_wav applied to each of       *)
(*             ConvertAudioToWavCalls;                                     *)
(*   SpecStableCacheKey  _stable_cache_key applied to each of              *)
(*             StableCacheKeyCalls.                                        *)
(***************************************************************************)
(* _generate_tts_async with its Live session.  The session is the input:   *)
(* the messages of the response turn in arrival order, each with its data  *)
(* (empty for a message without audio), and where the session fails, if    *)
(* it does: connecting or sending (290-292), receiving after the messages  *)
(* listed (296), or closing on the way out of "async with" (290).          *)
(***************************************************************************)
LiveMessages == { << >> } \cup Payloads

LiveTurns == UNION { [1..n -> LiveMessages] : n \in 0..MaxTurnLen }

LiveSessions ==
    [fault : { "connect" }, turn : { << >> }]
    \cup [fault : { "none", "receive", "close" }, turn : LiveTurns]

\* Lines 288-299: audio_chunks after the loop over the turn.  The variant
\* keeps the last message's data in place of extending the buffer.
ReceivedAudioMutLast(turn) ==
    IF Len(turn) = 0 THEN << >> ELSE turn[Len(turn)]

RECURSIVE ReceivedAudio(_)
ReceivedAudio(turn) ==
    IF Len(turn) = 0 THEN << >>
    ELSE LET data == turn[Len(turn)]
             audio_chunks == ReceivedAudio(SubSeq(turn, 1, Len(turn) - 1))
         IN  IF Len(data) > 0 THEN audio_chunks \o data ELSE audio_chunks

\* What the session amounts to for the adapter: the exception it raises, or
\* the audio received by the end of the turn.
SessionResponse(session) ==
    IF session.fault # "none" THEN [error |-> "Exception", data |-> << >>]
    ELSE [error |-> "", data |-> ReceivedAudio(session.turn)]

GenerateTtsAsyncCalls ==
    [pc : { "args" }, fn : { "_generate_tts_async" }, session : LiveSessions,
     out : { FnRaised("") }]

\* Line 271 first: _get_gemini_live_client reuses the cached client or builds
\* one, raising ValueError without GEMINI_API_KEY; then the session.
ApplyGenerateTtsAsync ==
    /\ call.pc = "args" /\ call.fn = "_generate_tts_async"
    /\ IF live_client # 0 \/ env.GEMINI_API_KEY
       THEN /\ live_client' = IF live_client # 0 THEN live_client ELSE clients_built + 1
            /\ clients_built' = IF live_client # 0 THEN clients_built ELSE clients_built + 1
            /\ call' = [call EXCEPT
                          !.pc = "returned",
                          !.out = LET r == GenerateTtsAsync(SessionResponse(call.session))
                                  IN  IF r.ok THEN FnReturned(r.bytes)
                                      ELSE FnRaised(r.exc)]
       ELSE /\ live_client' = live_client
            /\ clients_built' = clients_built
            /\ call' = [call EXCEPT !.pc = "returned", !.out = FnRaised("ValueError")]
    /\ UNCHANGED << th, store, redis_up, redis_client, env, ncalls, last_write,
                    redis_tested >>

(***************************************************************************)
Next ==
    \/ CallGetAudioUrl(MainCaller, UrlInputs)
    \/ GetRedisClient(MainCaller)
    \/ CacheGet(MainCaller)
    \/ ValidateText(MainCaller)
    \/ LiveAdapter(MainCaller)
    \/ LiveRetry(MainCaller)
    \/ GeminiAdapter(MainCaller)
    \/ GcloudAdapter(MainCaller)
    \/ CacheSet(MainCaller)
    \/ Return(MainCaller)
    \/ \E k \in CacheKeys : Expire(k)
    \/ RedisDown
    \/ RedisUp

Spec == Init /\ [][Next]_vars

NextUrlPath ==
    \/ CallGetAudioUrl(MainCaller, UrlPathInputs)
    \/ GetRedisClient(MainCaller)
    \/ CacheGet(MainCaller)
    \/ ValidateText(MainCaller)
    \/ LiveAdapter(MainCaller)
    \/ LiveRetry(MainCaller)
    \/ GeminiAdapter(MainCaller)
    \/ GcloudAdapter(MainCaller)
    \/ CacheSet(MainCaller)
    \/ Return(MainCaller)
    \/ \E k \in CacheKeys : Expire(k)
    \/ RedisDown
    \/ RedisUp

SpecUrlPath == Init /\ [][NextUrlPath]_vars

NextConc ==
    \/ \E p \in Callers :
          \/ CallGetAudioUrl(p, ConcInputs)
          \/ GetRedisClient(p)
          \/ CacheGet(p)
          \/ ValidateText(p)
          \/ LiveAdapter(p)
          \/ LiveRetry(p)
          \/ GeminiAdapter(p)
          \/ GcloudAdapter(p)
          \/ CacheSet(p)
          \/ Return(p)
    \/ \E k \in CacheKeys : Expire(k)

SpecConc == Init /\ [][NextConc]_vars

NextTts ==
    \/ CallGenerateTts(MainCaller)
    \/ ValidateText(MainCaller)
    \/ LiveAdapter(MainCaller)
    \/ LiveRetry(MainCaller)
    \/ GeminiAdapter(MainCaller)
    \/ GcloudAdapter(MainCaller)
    \/ Return(MainCaller)

SpecTts == InitTts /\ [][NextTts]_vars

\* generate_tts where the audio the Gemini API delivers is always under a
\* descriptor the encoder raises on, with the library and the key at hand.
InitTtsEncode ==
    /\ InitCommon
    /\ env \in { e \in Environments : e.GEMINI_TTS_AVAILABLE /\ e.GEMINI_API_KEY }

NextTtsEncode ==
    \/ CallGenerateTts(MainCaller)
    \/ ValidateText(MainCaller)
    \/ LiveAdapter(MainCaller)
    \/ LiveRetry(MainCaller)
    \/ GeminiAdapterOn(MainCaller, EncodeErrorResponses)
    \/ GcloudAdapter(MainCaller)
    \/ Return(MainCaller)

SpecTtsEncode == InitTtsEncode /\ [][NextTtsEncode]_vars

NextTtsFair ==
    \/ NextTts
    \/ LiveHangs(MainCaller)

SpecTtsFair == InitTts /\ [][NextTtsFair]_vars /\ WF_vars(NextTtsFair)

InitPcmToWav == InitProcess /\ env = FullEnvironment /\ call \in PcmToWavCalls

NextPcmToWav == ApplyPcmToWav

SpecPcmToWav == InitPcmToWav /\ [][NextPcmToWav]_vars

InitConvertAudioToWav ==
    InitProcess /\ env = FullEnvironment /\ call \in ConvertAudioToWavCalls

NextConvertAudioToWav == ApplyConvertAudioToWav

SpecConvertAudioToWav == InitConvertAudioToWav /\ [][NextConvertAudioToWav]_vars

InitGenerateTtsAsync ==
    /\ InitProcess
    /\ env \in { e \in Environments : e.GEMINI_TTS_AVAILABLE }
    /\ call \in GenerateTtsAsyncCalls

NextGenerateTtsAsync == ApplyGenerateTtsAsync

SpecGenerateTtsAsync == InitGenerateTtsAsync /\ [][NextGenerateTtsAsync]_vars

InitStableCacheKey ==
    InitProcess /\ env = FullEnvironment /\ call \in StableCacheKeyCalls

NextStableCacheKey == ApplyStableCacheKey

SpecStableCacheKey == InitStableCacheKey /\ [][NextStableCacheKey]_vars

\* The module's genai import succeeded, or nothing calls the function.
InitLive == InitCommon /\ env \in { e \in Environments : e.GEMINI_TTS_AVAILABLE }

NextLive ==
    \E p \in Callers :
        \/ CallGetGeminiLiveClient(p)
        \/ LiveClientCheck(p)
        \/ LiveClientBuild(p)
        \/ LiveClientStore(p)
        \/ LiveClientReturn(p)
        \/ Return(p)

SpecLive == InitLive /\ [][NextLive]_vars

(***************************************************************************)
(* Vocabulary of the properties.                                           *)
(***************************************************************************)
\* The thread's call has ended.
Done(p) == th[p].pc = "done"

\* A finished generate_tts call, entered directly, for non-blank text.
TtsDone(p) ==
    Done(p) /\ th[p].entry = "generate_tts" /\ ~IsBlankText(th[p].text)

Returned(p) == th[p].result.kind = "return"

AnySuccess(t) == \E i \in 1..Len(t.attempts) : t.attempts[i].ok

LastAttempt(t) == t.attempts[Len(t.attempts)]

\* No attempt of provider pr has ended the way ok says.
NoAttempt(t, pr, ok) ==
    \A i \in 1..Len(t.attempts) :
        ~(t.attempts[i].provider = pr /\ t.attempts[i].ok = ok)

\* The place of each adapter in generate_tts.
ProviderOrder(pr) == IF pr = "live" THEN 1 ELSE IF pr = "gemini" THEN 2 ELSE 3

\* The finished call went through the miss path and returned.
MissReturned(p) ==
    Done(p) /\ th[p].entry = "get_audio_url" /\ Returned(p) /\ ~IsHit(th[p].cached)

\* The finished call was a cache hit.
HitReturned(p) ==
    Done(p) /\ th[p].entry = "get_audio_url" /\ Returned(p) /\ IsHit(th[p].cached)

(***************************************************************************)
(* C1.  While the store answers, a lookup of a key whose current entry was *)
(* written by an earlier get_audio_url call (the entry has not expired and *)
(* no other call has written since) and whose MIME type is that writer's   *)
(* ends the call at once: it returns the very data URL the writer          *)
(* returned, attempts no provider and leaves the store as it is.           *)
(***************************************************************************)
C1_IdempotentCacheRead ==
    [][\A p \in Callers :
          ( /\ th[p].pc = "cache_get" /\ th'[p].pc # "cache_get"
            /\ redis_up
            /\ last_write[th[p].cache_key].by # NoWrite
            /\ last_write[th[p].cache_key].by.mime_type = th[p].mime_type )
          => ( /\ th'[p].pc = "done"
               /\ th'[p].result = ReturnedUrl(last_write[th[p].cache_key].by.url)
               /\ th'[p].attempts = << >>
               /\ store' = store )]_vars

\* A later call has hit the entry an earlier call wrote, with the same MIME type.
C1_Witness ==
    \E p \in Callers :
        /\ HitReturned(p)
        /\ th[p].seen > 0
        /\ last_write[th[p].cache_key].by.mime_type = th[p].mime_type
        /\ th[p].result.url = last_write[th[p].cache_key].by.url

SelectsBothFallbacks(vc) ==
    /\ vc.provider \in { None, "gcloud" }
    /\ vc.style = "game_show_host" \/ vc.voiceName \in { None, "Leda" }

C3_SilentPlaceholder ==
    \A p \in Callers :
        (TtsDone(p) /\ ~AnySuccess(th[p]))
        => LET w == th[p].result.audio
           IN  /\ Returned(p)
               /\ Len(w) = 44
               /\ WavDataSize(w) = 0
               /\ WavRiffSize(w) = 36
               /\ WavByteRate(w) =
                     WavSampleRate(w) * WavChannels(w) * (WavBitsPerSample(w) \div 8)

\* All three adapters were attempted and failed.
C3_Witness ==
    \E p \in Callers :
        /\ TtsDone(p) /\ Returned(p) /\ ~AnySuccess(th[p])
        /\ th[p].warnings = << "live", "gemini", "gcloud" >>

(***************************************************************************)
(* C4.  A finished generate_tts call for non-blank text has returned       *)
(* bytes, whichever adapters raised and whatever they raised: no           *)
(* adapter's exception reaches the caller.                                 *)
(***************************************************************************)
C4_NoProviderErrorSurfaces ==
    \A p \in Callers :
        TtsDone(p) => (Returned(p) /\ Len(th[p].result.audio) > 0)

\* A call returned a provider's audio after an earlier adapter had raised.
C4_Witness ==
    \E p \in Callers :
        /\ TtsDone(p) /\ Returned(p)
        /\ AnySuccess(th[p])
        /\ ~th[p].attempts[1].ok

(***************************************************************************)
(* C5.  As claimed: within one generate_tts call the attempts follow the   *)
(* order Live, Gemini API, Google Cloud, each adapter is attempted at most *)
(* once, and every attempt but the last has failed.                        *)
(***************************************************************************)
C5_Original ==
    \A p \in Callers :
        \A i, j \in 1..Len(th[p].attempts) :
            i < j => /\ ProviderOrder(th[p].attempts[i].provider)
                          < ProviderOrder(th[p].attempts[j].provider)
                     /\ ~th[p].attempts[i].ok

(***************************************************************************)
(* C6.  As claimed: under any interleaving, a key that holds an entry is   *)
(* never given another value while it holds it.                            *)
(***************************************************************************)
C6_Original ==
    [][\A k \in CacheKeys :
          (store[k].present /\ store'[k].present)
          => store'[k].value = store[k].value]_vars

(***************************************************************************)
(* C6, amended.  A key that holds an entry is given a different one only   *)
(* by a get_audio_url call whose own lookup missed before that entry was   *)
(* written (a concurrent miss; the last write wins).  A call that reads    *)
(* the key once the entry is there never writes it.                        *)
(***************************************************************************)
C6_OverwriteOnlyByConcurrentMiss ==
    [][\A k \in CacheKeys :
          (store[k].present /\ store'[k].present /\ store'[k] # store[k])
          => \E p \in Callers :
                /\ th[p].pc = "cache_set" /\ th'[p].pc = "done"
                /\ th[p].cache_key = k
                /\ ~th[p].cached.present
                /\ th[p].seen < last_write[k].n]_vars

\* Two calls missed on the same key before either wrote; the first stored an
\* entry without expiry and the second has replaced it with another value.
C6_Witness ==
    \E p, q \in Callers :
        /\ MissReturned(p) /\ MissReturned(q)
        /\ th[p].cache_key = th[q].cache_key
        /\ th[p].seen = th[q].seen
        /\ th[p].writes[1].entry.ttl = 0 - 1
        /\ th[q].writes[1].n = th[p].writes[1].n + 1
        /\ th[q].writes[1].entry.value # th[p].writes[1].entry.value
        /\ store[th[q].cache_key] = th[q].writes[1].entry

(***************************************************************************)
(* C7.  Every call that went through the miss path wrote the store once:   *)
(* the base64 of the audio it obtained itself, which is also the payload   *)
(* of the URL it returns; and while the key holds an entry, the entry is   *)
(* that of the call whose write came last.  The witness is the race: two   *)
(* callers miss on one key, both synthesize, both write.                   *)
(***************************************************************************)
C7_LastWriteWins ==
    \A p \in Callers :
        MissReturned(p)
        => /\ Len(th[p].writes) = 1
           /\ th[p].writes[1].entry.value = B64Encode(th[p].audio_bytes)
           /\ th[p].result.url = DataUrl(th[p].mime_type, th[p].writes[1].entry.value)
           /\ ( /\ store[th[p].cache_key].present
                /\ th[p].writes[1].n = last_write[th[p].cache_key].n )
              => store[th[p].cache_key] = th[p].writes[1].entry

\* Both callers saw the key empty, both synthesized, both wrote; the key holds
\* the later value, and the earlier caller has returned its own, other value.
C7_Witness ==
    \E p, q \in Callers :
        /\ MissReturned(p) /\ MissReturned(q)
        /\ th[p].cache_key = th[q].cache_key
        /\ ~th[p].cached.present /\ ~th[q].cached.present
        /\ th[p].seen = 0 /\ th[q].seen = 0
        /\ AnySuccess(th[p]) /\ AnySuccess(th[q])
        /\ th[p].writes[1].n = 1 /\ th[q].writes[1].n = 2
        /\ th[p].audio_bytes # th[q].audio_bytes
        /\ store[th[q].cache_key].value = B64Encode(th[q].audio_bytes)
        /\ th[p].result.url = DataUrl(th[p].mime_type, B64Encode(th[p].audio_bytes))

(***************************************************************************)
(* C8.  As claimed: a call writes the store only if some adapter returned  *)
(* audio; when every adapter failed nothing is stored under the key.       *)
(***************************************************************************)
C8_Original ==
    \A p \in Callers : Len(th[p].writes) > 0 => AnySuccess(th[p])

C10_HitLeavesStore ==
    [][\A p \in Callers :
          (th[p].pc = "cache_get" /\ th'[p].pc = "done" /\ th'[p].result.kind = "return")
          => /\ store' = store
             /\ th'[p].writes = << >>
             /\ th'[p].attempts = << >>
             /\ th'[p].result.url =
                   DataUrl(th[p].mime_type, store[th[p].cache_key].value)]_vars

\* A call has hit an entry that carries an expiry, asking for another MIME type
\* than the entry's writer; the entry is still what the call read.
C10_Witness ==
    \E p \in Callers :
        /\ HitReturned(p)
        /\ th[p].cached.ttl > 0
        /\ store[th[p].cache_key] = th[p].cached
        /\ last_write[th[p].cache_key].by # NoWrite
        /\ last_write[th[p].cache_key].by.mime_type # th[p].mime_type

(***************************************************************************)
(* C11.  A generate_tts call whose text is None, empty or nothing but      *)
(* whitespace goes from its entry straight to raising ValueError: no       *)
(* adapter is attempted during the call, and the Live client is not        *)
(* created by it.                                                          *)
(***************************************************************************)
C11_BlankTextRejectedFirst ==
    [][\A p \in Callers :
          ( /\ th'[p].entry = "generate_tts"
            /\ \/ th'[p].text = NoText
               \/ \A i \in 1..Len(th'[p].text) : th'[p].text[i] \in Whitespace )
          => ( /\ th'[p].pc \in { "validate", "done" }
               /\ th'[p].attempts = << >>
               /\ th'[p].warnings = << >>
               /\ live_client' = live_client
               /\ th'[p].pc = "done" => th'[p].result = Raised("ValueError") )]_vars

\* Calls with None and with whitespace for text have ended in ValueError, the
\* Live client never having been created.
C11_Witness ==
    \E p \in Callers :
        /\ th[p].pc = "done" /\ th[p].entry = "generate_tts"
        /\ th[p].text \in { NoText, << " ", "\t" >> }
        /\ th[p].result = Raised("ValueError")
        /\ ncalls = MaxCalls
        /\ live_client = 0

(***************************************************************************)
(* C12.  As claimed: a get_audio_url call with blank text never returns a  *)
(* data URL, whatever the store holds under its key.                       *)
(***************************************************************************)
C12_Original ==
    \A p \in Callers :
        (th[p].entry = "get_audio_url" /\ IsBlankText(th[p].text))
        => ~Returned(p)

(***************************************************************************)
(* C13.  A get_audio_url call whose cache_key is empty or None ends at its *)
(* first step with ValueError: that step leaves the Redis client and the   *)
(* store as they were, and the call has read nothing, written nothing and  *)
(* attempted no provider.                                                  *)
(***************************************************************************)
C13_MissingKeyRejectedFirst ==
    [][\A p \in Callers :
          (th'[p].entry = "get_audio_url" /\ th'[p].cache_key \in { "", NoKey })
          => ( /\ th'[p].pc = "done"
               /\ th'[p].result = Raised("ValueError")
               /\ th'[p].cached = Absent /\ th'[p].seen = 0
               /\ th'[p].writes = << >>
               /\ th'[p].attempts = << >>
               /\ th[p].pc = "idle"
                  => ( /\ redis_client' = redis_client
                       /\ store' = store
                       /\ last_write' = last_write
                       /\ live_client' = live_client ) )]_vars

\* The first call of the process had no key: it has raised, and no Redis
\* client exists.
C13_Witness ==
    \E p \in Callers :
        /\ th[p].pc = "done" /\ th[p].entry = "get_audio_url"
        /\ th[p].cache_key \in { "", NoKey }
        /\ th[p].text = Hello
        /\ th[p].result = Raised("ValueError")
        /\ ~redis_client /\ ncalls = 1

(***************************************************************************)
(* C14.  As claimed: under any interleaving of the callers of              *)
(* _get_gemini_live_client, at most one client is ever constructed, and    *)
(* every caller that has been handed a client has been handed the same.    *)
(***************************************************************************)
C14_Original ==
    /\ clients_built <= 1
    /\ \A p, q \in Callers :
          ( /\ th[p].entry = "_get_gemini_live_client" /\ Done(p) /\ Returned(p)
            /\ th[q].entry = "_get_gemini_live_client" /\ Done(q) /\ Returned(q) )
          => th[p].result.client = th[q].result.client

(***************************************************************************)
(* C15.  As claimed: a generate_tts call for non-blank text eventually     *)
(* returns, even when a provider it attempts never answers.                *)
(***************************************************************************)
C15_Original ==
    \A p \in Callers :
        (th[p].entry = "generate_tts" /\ th[p].pc = "validate" /\ ~IsBlankText(th[p].text))
        ~> (Done(p) /\ Returned(p))

(***************************************************************************)
(* C16.  With one caller at a time, the step at which a get_audio_url call *)
(* returns, on a hit or after a miss, returns "data:" + mimeType +         *)
(* ";base64," + payload, where mimeType is the voice_config's mimeType if  *)
(* it has one and "audio/wav" otherwise, and payload is the value the      *)
(* store holds under the call's key as the call returns.                   *)
(***************************************************************************)
C16_DataUrlForm ==
    [][\A p \in Callers :
          ( /\ th[p].pc # "done" /\ th'[p].pc = "done"
            /\ th'[p].entry = "get_audio_url"
            /\ th'[p].result.kind = "return" )
          => LET vc == th'[p].voice_config
                 mimeType == IF vc.mimeType # None THEN vc.mimeType ELSE "audio/wav"
                 k == th'[p].cache_key
             IN  /\ store'[k].present
                 /\ th'[p].result.url = "data:" \o mimeType \o ";base64," \o store'[k].value]_vars

\* One key, two calls: the first missed and was answered as audio/wav, the
\* second asked for audio/mpeg and was answered from the store.
C16_Witness ==
    \E p \in Callers :
        /\ HitReturned(p)
        /\ th[p].voice_config.mimeType = "audio/mpeg"
        /\ last_write[th[p].cache_key].by.mime_type = "audio/wav"
        /\ th[p].result.url =
              "data:audio/mpeg;base64," \o store[th[p].cache_key].value
        /\ last_write[th[p].cache_key].by.url =
              "data:audio/wav;base64," \o store[th[p].cache_key].value

(***************************************************************************)
(* C17.  As claimed, for every sample rate, channel count and sample       *)
(* width: _pcm_to_wav returns 44 + N bytes declaring riffSize 36 + N,      *)
(* dataSize N, blockAlign channels * sampleWidth and byteRate sampleRate * *)
(* blockAlign, followed by the payload.                                    *)
(***************************************************************************)
HeaderDeclares(w, pcm_data, sample_rate, channels, sample_width) ==
    /\ Len(w) = 44 + Len(pcm_data)
    /\ WavRiffSize(w) = 36 + Len(pcm_data)
    /\ WavDataSize(w) = Len(pcm_data)
    /\ WavChannels(w) = channels
    /\ WavSampleRate(w) = sample_rate
    /\ WavBlockAlign(w) = channels * sample_width
    /\ WavByteRate(w) = sample_rate * WavBlockAlign(w)
    /\ WavBitsPerSample(w) = 8 * sample_width
    /\ (sample_rate = 24000 /\ channels = 1 /\ sample_width = 2)
       => WavByteRate(w) = 48000
    /\ SubSeq(w, 45, Len(w)) = pcm_data

HeaderFieldsFit(sample_rate, channels, sample_width) ==
    /\ channels \in 0..65535
    /\ sample_rate >= 0
    /\ channels * sample_width \in 0..65535
    /\ 8 * sample_width \in 0..65535
    /\ (sample_rate * channels * sample_width) \div 65536 < 65536

C18_Original ==
    ( /\ call.pc = "returned" /\ call.fn = "_convert_audio_to_wav"
      /\ call.media_type \in BadMediaTypes \/ call.rate_param \in BadRateParams )
    => ~call.out.ok

(***************************************************************************)
(* C19.  The key _stable_cache_key returns for a prefix, a text and a      *)
(* voice_config is the key it returns for the same prefix and text and any *)
(* voice_config that holds the same items inserted in another order.       *)
(***************************************************************************)
C19_OrderIndependent ==
    (call.pc = "returned" /\ call.fn = "_stable_cache_key")
    => \A vc \in KeyConfigs :
          ( /\ Len(vc) = Len(call.voice_config)
            /\ { vc[i] : i \in 1..Len(vc) }
                  = { call.voice_config[i] : i \in 1..Len(call.voice_config) } )
          => StableCacheKey(call.prefix, call.text, vc) = call.out

\* Three items inserted in descending key order: the key is that of the
\* ascending order.
C19_Witness ==
    /\ call.pc = "returned" /\ call.fn = "_stable_cache_key"
    /\ call.text = "Hi"
    /\ call.voice_config = << << "voiceName", "Leda" >>, << "style", "calm" >>,
                              << "provider", "gcloud" >> >>
    /\ call.out =
          "tts:sha256<Hi|[('provider', 'gcloud'), ('style', 'calm'), ('voiceName', 'Leda')]>"

(***************************************************************************)
(* C20.  As claimed: whenever generate_tts returns a provider's audio, the *)
(* bytes are a 44-byte container header, with sizes that fit what follows, *)
(* followed by the raw payload, whichever adapter succeeded and whatever   *)
(* descriptor came with the audio, none included.                          *)
(***************************************************************************)
C20_Original ==
    \A p \in Callers :
        (TtsDone(p) /\ Returned(p) /\ AnySuccess(th[p]))
        => LET w == th[p].result.audio
           IN  /\ Len(w) > 44
               /\ SubSeq(w, 1, 4) = TagRIFF
               /\ SubSeq(w, 9, 12) = TagWAVE
               /\ WavRiffSize(w) = Len(w) - 8
               /\ WavDataSize(w) = Len(w) - 44
               /\ SubSeq(w, 45, Len(w)) \in Payloads

(***************************************************************************)
(* C21.  In a finished generate_tts call for non-blank text in which the   *)
(* Live adapter was attempted and did not succeed, the Gemini API adapter  *)
(* was attempted if and only if the style is "game_show_host", or the      *)
(* voiceName (the request's, else the default) is "Leda", or the provider  *)
(* (the request's, else the default) is "gemini"; and the Google Cloud     *)
(* adapter was attempted only if the provider is "gcloud".                 *)
(***************************************************************************)
C21_ProviderSelection ==
    \A p \in Callers :
        ( /\ TtsDone(p)
          /\ ~NoAttempt(th[p], "live", FALSE) /\ NoAttempt(th[p], "live", TRUE) )
        => LET vc == th[p].voice_config
               voiceName == IF vc.voiceName = None
                            THEN DEFAULT_GCLOUD_VOICE_NAME ELSE vc.voiceName
               provider == IF vc.provider = None
                           THEN DEFAULT_TTS_PROVIDER ELSE vc.provider
               attempted(pr) == \E i \in 1..Len(th[p].attempts) :
                                    th[p].attempts[i].provider = pr
           IN  /\ attempted("gemini")
                    <=> ( \/ vc.style = "game_show_host"
                          \/ voiceName = "Leda"
                          \/ provider = "gemini" )
               /\ attempted("gcloud") => provider = "gcloud"

\* The style alone selected the Gemini API adapter: the provider is neither
\* "gemini" nor "gcloud" and the voice is not "Leda".
C21_Witness ==
    \E p \in Callers :
        /\ TtsDone(p) /\ Returned(p)
        /\ th[p].voice_config.style = "game_show_host"
        /\ th[p].voice_config.provider = "other"
        /\ th[p].voice_config.voiceName = "Zephyr"
        /\ Len(th[p].attempts) = 2
        /\ th[p].attempts[1] = Attempt("live", FALSE, << >>)
        /\ th[p].attempts[2].provider = "gemini"

(***************************************************************************)
(* C22.  Every step of a get_audio_url call keeps the order lookup,        *)
(* provider attempts, write.  The key is read only with the Redis client   *)
(* at hand, on the step after get_redis_client.  generate_tts is entered   *)
(* only on the step that read the key from an answering store and missed.  *)
(* An adapter's attempt is recorded only inside generate_tts.  The store   *)
(* is written only on the step after generate_tts returned its audio, and  *)
(* after every attempt of the call.  A lookup made while the store does    *)
(* not answer (the ping of a new client, or the read) ends the call with   *)
(* an error and without any attempt.                                       *)
(***************************************************************************)
C22_LookupProvidersWrite ==
    [][ \A p \in Callers :
          LET t == th[p]
              u == th'[p]
              InTts(pc) == pc \in { "validate", "live", "live_retry", "gemini", "gcloud" }
          IN  (t.entry = "get_audio_url" /\ u # t /\ t.pc # "done")
              => /\ u.pc = "cache_get" => t.pc = "get_client" /\ redis_client'
                 /\ (InTts(u.pc) /\ ~InTts(t.pc))
                      => /\ t.pc = "cache_get" /\ u.pc = "validate"
                         /\ redis_client /\ redis_up
                         /\ u.cached = store[t.cache_key] /\ ~IsHit(u.cached)
                         /\ u.attempts = << >>
                 /\ u.attempts # t.attempts => InTts(t.pc) /\ t.pc # "validate"
                 /\ u.pc = "cache_set"
                      => InTts(t.pc) /\ u.audio_bytes # << >> /\ u.writes = << >>
                 /\ (store' # store \/ u.writes # t.writes)
                      => /\ t.pc = "cache_set" /\ u.pc = "done"
                         /\ u.attempts = t.attempts
                 /\ ( /\ ~redis_up
                      /\ \/ t.pc = "cache_get"
                         \/ t.pc = "get_client" /\ ~redis_client )
                      => /\ u.pc = "done" /\ u.result.kind = "raise"
                         /\ u.attempts = << >> /\ u.writes = << >>
                         /\ store' = store
    ]_vars

\* An earlier call went through lookup, providers and write; the present one
\* met a store that does not answer and ended with an error, no provider tried.
C22_Witness ==
    \E p \in Callers :
        /\ Done(p) /\ th[p].entry = "get_audio_url"
        /\ ~IsNoKey(th[p].cache_key)
        /\ th[p].result.kind = "raise"
        /\ ~redis_up
        /\ th[p].attempts = << >>
        /\ last_write[th[p].cache_key].n = 1
        /\ store[th[p].cache_key].present

(***************************************************************************)
(* C23.  As claimed: a call that get_redis_client has just handed a client *)
(* holds one whose ping has succeeded.                                     *)
(***************************************************************************)
C23_Original ==
    \A p \in Callers : th[p].pc = "cache_get" => redis_tested

(***************************************************************************)
(* C24.  A get_audio_url call that ends in an error raised before the      *)
(* write (cache_key missing, Redis failing the ping or the read, text      *)
(* blank on a miss) has not changed the store: the step that raises leaves *)
(* every key's entry and expiry as they are, the call has written nothing  *)
(* before it, and no step of any call changes the store without counting   *)
(* among that call's writes.                                               *)
(***************************************************************************)
C24_ErrorLeavesStore ==
    [][ \A p \in Callers :
          LET t == th[p]
              u == th'[p]
          IN  (u # t /\ u.entry = "get_audio_url")
              => /\ store' # store => Len(u.writes) = Len(t.writes) + 1
                 /\ ( /\ u.pc = "done" /\ t.pc # "done"
                      /\ u.result.kind = "raise"
                      /\ t.pc # "cache_set" )
                      => /\ store' = store
                         /\ last_write' = last_write
                         /\ u.writes = << >>
                         /\ \/ IsNoKey(u.cache_key)
                            \/ t.pc \in { "get_client", "cache_get" } /\ ~redis_up
                            \/ t.pc = "validate" /\ IsBlankText(u.text)
    ]_vars

\* Blank text on a miss, rejected, while the other key holds an entry.
C24_Witness ==
    \E p \in Callers :
        /\ Done(p) /\ th[p].entry = "get_audio_url"
        /\ th[p].result = Raised("ValueError")
        /\ IsBlankText(th[p].text)
        /\ ~IsNoKey(th[p].cache_key)
        /\ ~store[th[p].cache_key].present
        /\ redis_up
        /\ \E k \in CacheKeys : store[k].present

(***************************************************************************)
(* C25.  The step on which a get_audio_url call hits returns the data URL  *)
(* made of the MIME type of this request (its voice_config's mimeType,     *)
(* else the default) and the payload stored under the key, which is the    *)
(* payload of the data URL returned by the call that wrote the entry,      *)
(* whatever the text and the voice_config of the present call.             *)
(***************************************************************************)
C25_HitPayloadByKeyOnly ==
    [][ \A p \in Callers :
          ( /\ th[p].pc = "cache_get" /\ th'[p].pc = "done"
            /\ th'[p].result.kind = "return" )
          => LET k == th[p].cache_key
                 w == last_write[k].by
                 payload == store[k].value
                 vc == th[p].voice_config
                 mime == IF vc.mimeType = None THEN DEFAULT_AUDIO_MIME ELSE vc.mimeType
             IN  /\ w # NoWrite
                 /\ w.url = "data:" \o w.mime_type \o ";base64," \o payload
                 /\ th'[p].result.url = "data:" \o mime \o ";base64," \o payload
    ]_vars

\* A hit by a call whose text is blank (no writer's text is) and whose MIME
\* type is not the writer's: the writer's payload under this request's type.
C25_Witness ==
    \E p \in Callers :
        /\ HitReturned(p)
        /\ IsBlankText(th[p].text)
        /\ LET w == last_write[th[p].cache_key].by
           IN  /\ w # NoWrite
               /\ w.mime_type = "audio/wav" /\ th[p].mime_type = "audio/mpeg"
               /\ w.url = "data:audio/wav;base64," \o th[p].cached.value
               /\ th[p].result.url = "data:audio/mpeg;base64," \o th[p].cached.value

(***************************************************************************)
(* C26.  As claimed: _generate_tts_async returns if and only if the turn   *)
(* has delivered at least one message with audio data, and then returns    *)
(* the 44-byte header followed by all the data in arrival order.  (A       *)
(* session that could not be opened has delivered nothing.)                *)
(***************************************************************************)
RECURSIVE DataInOrder(_)
DataInOrder(turn) ==
    IF Len(turn) = 0 THEN << >> ELSE Head(turn) \o DataInOrder(Tail(turn))

DeliveredAudio(turn) == \E i \in 1..Len(turn) : Len(turn[i]) > 0

C26_Original ==
    (call.pc = "returned" /\ call.fn = "_generate_tts_async")
    => /\ call.out.ok <=> (env.GEMINI_API_KEY /\ DeliveredAudio(call.session.turn))
       /\ call.out.ok
            => /\ Len(call.out.bytes) = 44 + Len(DataInOrder(call.session.turn))
               /\ SubSeq(call.out.bytes, 45, Len(call.out.bytes))
                    = DataInOrder(call.session.turn)

(***************************************************************************)
(* C26, amended.  _generate_tts_async returns if and only if the client    *)
(* was at hand, the session was opened, the turn ended without an          *)
(* exception having delivered at least one message with audio data, and    *)
(* the session closed without an exception; it then returns the 44-byte    *)
(* header for 24000 Hz, 16-bit, mono, declaring the data's size, followed  *)
(* by all the data in arrival order.  Otherwise it raises: ValueError      *)
(* without the credential, the session's exception, or RuntimeError for a  *)
(* turn without audio.                                                     *)
(***************************************************************************)
C26_StreamingAdapter ==
    (call.pc = "returned" /\ call.fn = "_generate_tts_async")
    => LET session == call.session
           audio == DataInOrder(session.turn)
           w == call.out.bytes
       IN  /\ call.out.ok <=> ( /\ env.GEMINI_API_KEY
                                /\ session.fault = "none"
                                /\ DeliveredAudio(session.turn) )
           /\ call.out.ok
                => /\ Len(w) = 44 + Len(audio)
                   /\ SubSeq(w, 1, 4) = TagRIFF /\ SubSeq(w, 9, 12) = TagWAVE
                   /\ WavRiffSize(w) = 36 + Len(audio)
                   /\ WavDataSize(w) = Len(audio)
                   /\ WavSampleRate(w) = 24000 /\ WavChannels(w) = 1
                   /\ WavBitsPerSample(w) = 16
                   /\ SubSeq(w, 45, Len(w)) = audio
           /\ ~call.out.ok
                => call.out.exc =
                     IF ~env.GEMINI_API_KEY THEN "ValueError"
                     ELSE IF session.fault # "none" THEN "Exception"
                     ELSE "RuntimeError"

\* A turn of two different data messages around one without data.
C26_Witness ==
    /\ call.pc = "returned" /\ call.fn = "_generate_tts_async"
    /\ call.out.ok
    /\ call.session.turn = << Pcm(2), << >>, Pcm(1) >>
    /\ SubSeq(call.out.bytes, 45, Len(call.out.bytes)) = Pcm(2) \o Pcm(1)

(***************************************************************************)
(* C27.  As claimed: without GEMINI_API_KEY, a finished generate_tts call  *)
(* for non-blank text that called an adapter needing the key (the Live     *)
(* adapter with no client cached, or the Gemini API adapter) has raised    *)
(* to its caller, and no adapter was tried after the one that lacked the   *)
(* key.                                                                    *)
(***************************************************************************)
C27_Original ==
    \A p \in Callers :
        ( /\ TtsDone(p)
          /\ ~env.GEMINI_API_KEY
          /\ Len(th[p].attempts) > 0
          /\ th[p].attempts[1].provider \in { "live", "gemini" } )
        => /\ th[p].result.kind = "raise"
           /\ Len(th[p].attempts) = 1

(***************************************************************************)
(* C28.  As claimed, where every failure of the Gemini API adapter is the  *)
(* encoder raising on the audio delivered: a finished generate_tts call    *)
(* in which that adapter failed has raised to its caller, and that         *)
(* adapter's attempt was the call's last.                                  *)
(***************************************************************************)
C28_Original ==
    \A p \in Callers :
        (TtsDone(p) /\ ~NoAttempt(th[p], "gemini", FALSE))
        => /\ th[p].result.kind = "raise"
           /\ LastAttempt(th[p]).provider = "gemini"

====
